---- MODULE Spec2Model ----
(***************************************************************************)
(* Model of the OpenRouter multimodal MCP server: the tool dispatch router *)
(* (src/src/tool-handlers.ts), the chat-completion handler with its token  *)
(* budget truncator and automatic free-model selector, and the image       *)
(* generation handler with its response normalizer                         *)
(* (src/src/tool-handlers/generate-image.ts), as constructed by the server *)
(* bootstrap (src/src/index.ts).                                           *)
(*                                                                         *)
(* JavaScript values are tagged records: [t |-> "undefined"],              *)
(* [t |-> "null"], [t |-> "num", v |-> n], [t |-> "str", v |-> "..."],     *)
(* [t |-> "arr", v |-> <<...>>], [t |-> "obj", v |-> [key |-> value]].     *)
(* Strings are TLA+ strings, read with Len, SubSeq and \o.                 *)
(***************************************************************************)
EXTENDS Integers, Sequences, FiniteSets, TLC

VARIABLES
    messages,       \* truncateMessagesToFit: the messages argument
    maxTokens,      \* truncateMessagesToFit: the maxTokens argument
    truncCalled,    \* whether truncateMessagesToFit has returned
    truncated,      \* truncateMessagesToFit: the returned array
    modelsResponse, \* findSuitableFreeModel: what openai.models.list() gives
    selCalled,      \* whether findSuitableFreeModel has returned
    selected,       \* findSuitableFreeModel: the returned model id
    config,         \* how the handlers were constructed, and with what
    defaultModel,   \* ToolHandlers.defaultModel
    catalog,        \* the provider's model list
    diskWritable,   \* whether a file can be written at the save path
    pc,             \* where the tool call is: idle, await..., done
    request,        \* the tool call: its name and arguments
    callModel,      \* the handler's local variable model
    outbound,       \* the requests sent to the provider, in order
    inbound,        \* the provider's answers, in order
    invoked,        \* the handlers the router has called, in order
    handlerOutcome, \* what the handler ended in
    outcome,        \* what the router gave the protocol layer
    writes,         \* the files written, in order
    calls,          \* the tool calls in flight at once, each with its own locals
    started,        \* the calls the router has accepted, in order
    files           \* the files all the calls have written, in order

truncVars == <<messages, maxTokens, truncCalled, truncated>>
selVars == <<modelsResponse, selCalled, selected>>
envVars == <<config, defaultModel, catalog, diskWritable>>
callVars == <<pc, request, callModel, outbound, inbound, invoked, handlerOutcome, outcome, writes>>

concVars == <<calls, started, files>>

vars == <<truncVars, selVars, envVars, callVars, concVars>>

(***************************************************************************)
(* Bounds of the model.                                                    *)
(***************************************************************************)
MaxMsgs == 3        \* longest message sequence handed to the truncator
MaxBudget == 3      \* budgets 0..MaxBudget, and the same above one image's cost
MaxCatalog == 3     \* longest model list the catalog query returns
MaxParts == 2       \* longest array of content parts, or of images, in a response

(***************************************************************************)
(* JavaScript values.                                                      *)
(***************************************************************************)
Undef == [t |-> "undefined"]
JNull == [t |-> "null"]
JNum(n) == [t |-> "num", v |-> n]
JStr(s) == [t |-> "str", v |-> s]
JArr(a) == [t |-> "arr", v |-> a]
JObj(o) == [t |-> "obj", v |-> o]

NaN == [t |-> "nan"]

\* JavaScript truthiness
Truthy(x) ==
    CASE x.t = "undefined" -> FALSE
      [] x.t = "null" -> FALSE
      [] x.t = "nan" -> FALSE
      [] x.t = "num" -> x.v # 0
      [] x.t = "str" -> x.v # ""
      [] OTHER -> TRUE

(***************************************************************************)
(* Strings.                                                                *)
(***************************************************************************)
CharAt(s, i) == SubSeq(s, i, i)

\* String.prototype.startsWith
StartsWith(s, prefix) ==
    Len(s) >= Len(prefix) /\ SubSeq(s, 1, Len(prefix)) = prefix

\* the least 1-based index at which sub occurs in s, 0 when it does not
IndexOf(s, sub) ==
    LET hits == {i \in 1..(Len(s) - Len(sub) + 1) : SubSeq(s, i, i + Len(sub) - 1) = sub} IN
    IF hits = {} THEN 0 ELSE CHOOSE i \in hits : \A j \in hits : i <= j

\* String.prototype.includes
Includes(s, sub) == IndexOf(s, sub) # 0

Digits == {"0", "1", "2", "3", "4", "5", "6", "7", "8", "9"}

DigitValue(c) ==
    CASE c = "0" -> 0 [] c = "1" -> 1 [] c = "2" -> 2 [] c = "3" -> 3 [] c = "4" -> 4
      [] c = "5" -> 5 [] c = "6" -> 6 [] c = "7" -> 7 [] c = "8" -> 8 [] OTHER -> 9

\* the value of the decimal digits s starts with, after acc
RECURSIVE LeadingDigits(_, _)
LeadingDigits(s, acc) ==
    IF s = "" \/ CharAt(s, 1) \notin Digits THEN acc
    ELSE LeadingDigits(Tail(s), 10 * acc + DigitValue(CharAt(s, 1)))

\* parseInt(x, 10) of a number (an integer) or of a string
parseInt(x) ==
    CASE x.t = "num" -> x
      [] x.t = "str" /\ x.v # "" /\ CharAt(x.v, 1) \in Digits -> JNum(LeadingDigits(x.v, 0))
      [] OTHER -> NaN

(***************************************************************************)
(* Objects are sequences of <<key, value>> pairs, in insertion order.      *)
(***************************************************************************)
IsNullish(x) == x.t \in {"undefined", "null"}

RECURSIVE Lookup(_, _)
Lookup(pairs, k) ==
    IF pairs = <<>> THEN Undef
    ELSE IF Head(pairs)[1] = k THEN Head(pairs)[2]
    ELSE Lookup(Tail(pairs), k)

\* x.k of a value that is neither null nor undefined
Get(x, k) == IF x.t = "obj" THEN Lookup(x.v, k) ELSE Undef

\* x?.k
GetOpt(x, k) == IF IsNullish(x) THEN Undef ELSE Get(x, k)

\* x.length
LengthOf(x) == IF x.t \in {"arr", "str"} THEN JNum(Len(x.v)) ELSE Undef

\* x[0]
First(x) ==
    CASE x.t = "arr" /\ x.v # <<>> -> x.v[1]
      [] x.t = "str" /\ x.v # "" -> JStr(CharAt(x.v, 1))
      [] OTHER -> Undef

\* Object.keys(x).join(',') of an object, an array or a primitive
RECURSIVE JoinKeys(_)
JoinKeys(pairs) ==
    IF pairs = <<>> THEN ""
    ELSE IF Len(pairs) = 1 THEN Head(pairs)[1]
    ELSE Head(pairs)[1] \o "," \o JoinKeys(Tail(pairs))

RECURSIVE NatToString(_)
NatToString(n) ==
    IF n < 10 THEN CharAt("0123456789", n + 1)
    ELSE NatToString(n \div 10) \o CharAt("0123456789", (n % 10) + 1)

\* String(n)
NumToString(n) == IF n < 0 THEN "-" \o NatToString(0 - n) ELSE NatToString(n)

RECURSIVE IndexKeys(_, _)
IndexKeys(i, n) ==
    IF i >= n THEN ""
    ELSE IF i = n - 1 THEN NatToString(i)
    ELSE NatToString(i) \o "," \o IndexKeys(i + 1, n)

ObjectKeysJoined(x) ==
    CASE x.t = "obj" -> JoinKeys(x.v)
      [] x.t \in {"arr", "str"} -> IndexKeys(0, Len(x.v))
      [] OTHER -> ""

\* a string with its quotes and backslashes escaped, as JSON.stringify does
\* (the string is split in halves to keep the evaluation shallow)
RECURSIVE EscapeJson(_)
EscapeJson(s) ==
    IF s = "" THEN ""
    ELSE IF Len(s) = 1
    THEN (CASE s = "\"" -> "\\\""
            [] s = "\\" -> "\\\\"
            [] s = "\n" -> "\\n"
            [] OTHER -> s)
    ELSE EscapeJson(SubSeq(s, 1, Len(s) \div 2))
            \o EscapeJson(SubSeq(s, (Len(s) \div 2) + 1, Len(s)))

\* JSON.stringify(x) of a JSON value
RECURSIVE JSONstringify(_), StringifyItems(_), StringifyPairs(_)
JSONstringify(x) ==
    CASE x.t = "null" -> "null"
      [] x.t = "num" -> NumToString(x.v)
      [] x.t = "str" -> "\"" \o EscapeJson(x.v) \o "\""
      [] x.t = "arr" -> "[" \o StringifyItems(x.v) \o "]"
      [] x.t = "obj" -> "{" \o StringifyPairs(x.v) \o "}"
      [] OTHER -> "null"

StringifyItems(items) ==
    IF items = <<>> THEN ""
    ELSE JSONstringify(Head(items))
            \o (IF Len(items) = 1 THEN "" ELSE "," \o StringifyItems(Tail(items)))

StringifyPairs(pairs) ==
    IF pairs = <<>> THEN ""
    ELSE "\"" \o EscapeJson(Head(pairs)[1]) \o "\":" \o JSONstringify(Head(pairs)[2])
            \o (IF Len(pairs) = 1 THEN "" ELSE "," \o StringifyPairs(Tail(pairs)))

\* s.substring(0, n)
Substring0(s, n) == IF Len(s) <= n THEN s ELSE SubSeq(s, 1, n)

\* `${x}` of a string, a number, null or undefined
TemplateString(x) ==
    CASE x.t = "str" -> x.v
      [] x.t = "num" -> NumToString(x.v)
      [] x.t = "null" -> "null"
      [] x.t = "undefined" -> "undefined"
      [] x.t = "arr" -> "[array]"
      [] OTHER -> "[object Object]"

Whitespace == {" ", "\n", "\t", "\r"}

\* String.prototype.trim
RECURSIVE TrimStart(_), TrimEnd(_)
TrimStart(s) == IF s # "" /\ CharAt(s, 1) \in Whitespace THEN TrimStart(Tail(s)) ELSE s
TrimEnd(s) ==
    IF s # "" /\ CharAt(s, Len(s)) \in Whitespace THEN TrimEnd(SubSeq(s, 1, Len(s) - 1)) ELSE s
Trim(s) == TrimEnd(TrimStart(s))

(***************************************************************************)
(* The regular expressions of the normalizer, and base64.                  *)
(***************************************************************************)
NoMatch == [ok |-> FALSE, mime |-> "", payload |-> "", whole |-> ""]

\* url.match(/^data:([^;]+);base64,(.+)$/)
matchDataUrl(url) ==
    IF ~StartsWith(url, "data:") THEN NoMatch
    ELSE LET rest == SubSeq(url, 6, Len(url))
             semi == IndexOf(rest, ";")
             tail == SubSeq(rest, semi, Len(rest))
             payload == SubSeq(tail, 9, Len(tail))
         IN IF semi > 1 /\ StartsWith(tail, ";base64,") /\ payload # ""
                /\ ~Includes(payload, "\n") /\ ~Includes(payload, "\r")
            THEN [ok |-> TRUE, mime |-> SubSeq(rest, 1, semi - 1),
                  payload |-> payload, whole |-> url]
            ELSE NoMatch

BASE64_ALPHABET == "ABCDEFGHIJKLMNOPQRSTUVWXYZabcdefghijklmnopqrstuvwxyz0123456789+/"

\* [A-Za-z0-9+/=]
IsBase64Char(c) == c = "=" \/ IndexOf(BASE64_ALPHABET, c) # 0

\* the longest prefix of s made of the characters accepted by ok
RECURSIVE Base64Run(_)
Base64Run(s) ==
    IF s = "" \/ ~IsBase64Char(CharAt(s, 1)) THEN ""
    ELSE CharAt(s, 1) \o Base64Run(Tail(s))

ImageExtensions == {"png", "jpeg", "jpg", "gif", "webp"}

\* /data:image\/(png|jpeg|jpg|gif|webp);base64,([A-Za-z0-9+/=]+)/ tried at i
embeddedImageAt(s, i) ==
    LET from == SubSeq(s, i, Len(s))
        exts == {e \in ImageExtensions : StartsWith(from, "data:image/" \o e \o ";base64,")}
    IN IF exts = {} THEN NoMatch
       ELSE LET ext == CHOOSE e \in exts : TRUE
                head == "data:image/" \o ext \o ";base64,"
                run == Base64Run(SubSeq(from, Len(head) + 1, Len(from)))
            IN IF run = "" THEN NoMatch
               ELSE [ok |-> TRUE, mime |-> ext, payload |-> run, whole |-> head \o run]

\* content.match(...) of that expression: the leftmost match
matchEmbeddedImage(s) ==
    LET hits == {i \in 1..Len(s) : embeddedImageAt(s, i).ok} IN
    IF hits = {} THEN NoMatch
    ELSE embeddedImageAt(s, CHOOSE i \in hits : \A j \in hits : i <= j)

LOWER_CASE == "abcdefghijklmnopqrstuvwxyz"
UPPER_CASE == "ABCDEFGHIJKLMNOPQRSTUVWXYZ"

RECURSIVE ToLower(_)
ToLower(s) ==
    IF s = "" THEN ""
    ELSE LET c == CharAt(s, 1)
             u == IndexOf(UPPER_CASE, c)
         IN (IF u = 0 THEN c ELSE CharAt(LOWER_CASE, u)) \o ToLower(Tail(s))

\* [^\s"'<>]
IsUrlChar(c) == c \notin (Whitespace \cup {"\"", "'", "<", ">"})

RECURSIVE UrlRun(_)
UrlRun(s) ==
    IF s = "" \/ ~IsUrlChar(CharAt(s, 1)) THEN ""
    ELSE CharAt(s, 1) \o UrlRun(Tail(s))

\* /https?:\/\/[^\s"'<>]+\.(png|jpg|jpeg|gif|webp)/i tried at i: the greedy
\* run gives back characters down to the last ".ext" it holds
imageUrlAt(s, i) ==
    LET from == SubSeq(s, i, Len(s))
        low == ToLower(from)
        head == IF StartsWith(low, "https://") THEN 8
                ELSE IF StartsWith(low, "http://") THEN 7 ELSE 0
        run == UrlRun(SubSeq(from, head + 1, Len(from)))
        lowRun == ToLower(run)
        good == {n \in 1..Len(run) :
                    \E d \in 2..Len(run), e \in ImageExtensions :
                        /\ n = d + Len(e)
                        /\ SubSeq(lowRun, d, n) = "." \o e}
    IN IF head = 0 \/ good = {} THEN NoMatch
       ELSE LET n == CHOOSE m \in good : \A k \in good : k <= m IN
            [ok |-> TRUE, mime |-> "", payload |-> "",
             whole |-> SubSeq(from, 1, head + n)]

\* content.match(...) of that expression: the leftmost match
matchImageUrl(s) ==
    LET hits == {i \in 1..Len(s) : imageUrlAt(s, i).ok} IN
    IF hits = {} THEN NoMatch
    ELSE imageUrlAt(s, CHOOSE i \in hits : \A j \in hits : i <= j)

\* the 6-bit values of the base64 characters of s, up to the first "="
RECURSIVE Sextets(_)
Sextets(s) ==
    IF s = "" \/ CharAt(s, 1) = "=" THEN <<>>
    ELSE LET k == IndexOf(BASE64_ALPHABET, CharAt(s, 1)) IN
         (IF k = 0 THEN <<>> ELSE <<k - 1>>) \o Sextets(Tail(s))

RECURSIVE BytesOf(_)
BytesOf(q) ==
    IF Len(q) < 2 THEN <<>>
    ELSE LET b1 == q[1] * 4 + (q[2] \div 16) IN
         IF Len(q) = 2 THEN <<b1>>
         ELSE LET b2 == (q[2] % 16) * 16 + (q[3] \div 4) IN
              IF Len(q) = 3 THEN <<b1, b2>>
              ELSE <<b1, b2, (q[3] % 4) * 64 + q[4]>> \o BytesOf(SubSeq(q, 5, Len(q)))

\* Buffer.from(base64Data, "base64")
base64Decode(s) == BytesOf(Sextets(s))

(***************************************************************************)
(* Token Budget Truncator.                                                 *)
(***************************************************************************)
IMAGE_TOKEN_COST == 1000

\* Math.ceil(text.length / 4); text is whatever has a length (the system
\* message's content is passed "as string" also when it is an array).
estimateTokenCount(text) == (Len(text) + 3) \div 4

\* the inner loop over the parts of a multimodal message
RECURSIVE partsTokens(_)
partsTokens(parts) ==
    IF parts = <<>> THEN 0
    ELSE LET part == Head(parts) IN
         (IF part.type = "text" /\ part.text # ""
             THEN estimateTokenCount(part.text)
          ELSE IF part.type = "image_url" THEN IMAGE_TOKEN_COST
          ELSE 0) + partsTokens(Tail(parts))

\* truncated.unshift(message)
unshift(arr, message) == <<message>> \o arr

\* the scan "for (let i = messages.length - 1; i >= 0; i--)", at 1-based i,
\* with the array and the running count built so far
RECURSIVE scanMessages(_, _, _, _, _)
scanMessages(msgs, budget, i, acc, currentTokenCount) ==
    IF i = 0 THEN acc
    ELSE LET message == msgs[i] IN
         IF i = 1 /\ message.role = "system"
            THEN scanMessages(msgs, budget, i - 1, acc, currentTokenCount)
         ELSE IF message.content.t = "str"
            THEN LET messageTokens == estimateTokenCount(message.content.v) IN
                 IF currentTokenCount + messageTokens > budget THEN acc
                 ELSE scanMessages(msgs, budget, i - 1, unshift(acc, message),
                                   currentTokenCount + messageTokens)
         ELSE IF message.content.t = "arr"
            THEN LET messageTokens == partsTokens(message.content.v) IN
                 IF currentTokenCount + messageTokens > budget THEN acc
                 ELSE scanMessages(msgs, budget, i - 1, unshift(acc, message),
                                   currentTokenCount + messageTokens)
         ELSE scanMessages(msgs, budget, i - 1, acc, currentTokenCount)

truncateMessagesToFit(msgs, budget) ==
    IF msgs # <<>> /\ msgs[1].role = "system"
       THEN scanMessages(msgs, budget, Len(msgs), <<msgs[1]>>,
                         estimateTokenCount(msgs[1].content.v))
       ELSE scanMessages(msgs, budget, Len(msgs), <<>>, 0)

(***************************************************************************)
(* Inputs of the truncator: ChatCompletionMessageParam values.  A message  *)
(* carries its index in the input as id (the object's identity).           *)
(***************************************************************************)
TextPart(s) == [type |-> "text", text |-> s]
ImagePart == [type |-> "image_url", text |-> ""]

StringContents == {JStr(""), JStr("abcd"), JStr("abcdefgh")}
TextArrayContents == {JArr(<<TextPart("abcdefgh")>>),
                      JArr(<<TextPart("abcd"), TextPart("abcd")>>)}
ImageArrayContents == {JArr(<<ImagePart>>), JArr(<<TextPart("abcd"), ImagePart>>)}

\* content by role: a system message holds a string or text parts, a user
\* message a string or parts, an assistant message a string or null
ContentsOf(role) ==
    CASE role = "system" -> StringContents \cup TextArrayContents
      [] role = "user" -> StringContents \cup TextArrayContents \cup ImageArrayContents
      [] OTHER -> {JStr("abcd"), JNull}

Roles == {"system", "user", "assistant"}

MessagesAt(i) ==
    UNION {{[id |-> i, role |-> r, content |-> c] : c \in ContentsOf(r)} : r \in Roles}

RECURSIVE MessageSeqs(_)
MessageSeqs(n) ==
    IF n = 0 THEN {<<>>}
    ELSE LET shorter == MessageSeqs(n - 1) IN
         shorter \cup {Append(s, m) : s \in {q \in shorter : Len(q) = n - 1},
                                      m \in MessagesAt(n)}

Budgets == (0..MaxBudget) \cup {IMAGE_TOKEN_COST + b : b \in 0..MaxBudget}

TruncIdle ==
    /\ messages = <<>>
    /\ maxTokens = 0
    /\ truncCalled = FALSE
    /\ truncated = <<>>

TruncInit ==
    /\ messages \in MessageSeqs(MaxMsgs)
    /\ maxTokens \in Budgets
    /\ truncCalled = FALSE
    /\ truncated = <<>>

TruncateCall ==
    /\ ~truncCalled
    /\ truncCalled' = TRUE
    /\ truncated' = truncateMessagesToFit(messages, maxTokens)
    /\ UNCHANGED <<messages, maxTokens, selVars, envVars, callVars, concVars>>

(***************************************************************************)
(* Automatic Model Selector.                                               *)
(***************************************************************************)
FALLBACK_FREE_MODEL == "deepseek/deepseek-chat-v3-0324:free"

\* the .map callback: the model's id with its context length
freeModelEntry(model) ==
    LET contextLength ==
            IF model.context_length.t = "num" THEN model.context_length
            ELSE IF Truthy(model.context_window) THEN parseInt(model.context_window)
            ELSE JNum(0)
    IN [id |-> model.id,
        contextLength |-> IF Truthy(contextLength) THEN contextLength.v ELSE 0]

\* .filter(model => model.id.includes('free')).map(...)
RECURSIVE freeModelsOf(_)
freeModelsOf(data) ==
    IF data = <<>> THEN <<>>
    ELSE (IF Includes(Head(data).id, "free") THEN <<freeModelEntry(Head(data))>> ELSE <<>>)
            \o freeModelsOf(Tail(data))

\* the comparator (a, b) => b.contextLength - a.contextLength
compareContextLength(a, b) == b.contextLength - a.contextLength

\* a sort that is not stable: x goes in front of the elements it ties with
RECURSIVE insertSortedUnstable(_, _)
insertSortedUnstable(sorted, x) ==
    IF sorted = <<>> THEN <<x>>
    ELSE IF compareContextLength(Head(sorted), x) >= 0 THEN <<x>> \o sorted
    ELSE <<Head(sorted)>> \o insertSortedUnstable(Tail(sorted), x)

\* x placed into a sorted array behind every element that does not sort after it
RECURSIVE insertSorted(_, _)
insertSorted(sorted, x) ==
    IF sorted = <<>> THEN <<x>>
    ELSE IF compareContextLength(Head(sorted), x) > 0 THEN <<x>> \o sorted
    ELSE <<Head(sorted)>> \o insertSorted(Tail(sorted), x)

\* Array.prototype.sort with the comparator: a stable sort
RECURSIVE sortFreeModels(_, _)
sortFreeModels(arr, sorted) ==
    IF arr = <<>> THEN sorted
    ELSE sortFreeModels(Tail(arr), insertSorted(sorted, Head(arr)))

\* the selector without its catch: a query that raises yields no id
findSuitableFreeModelNoCatch(response) ==
    IF response.kind = "raise" THEN ""
    ELSE IF response.kind \in {"none", "nodata"} \/ response.data = <<>>
        THEN FALLBACK_FREE_MODEL
    ELSE LET freeModels == freeModelsOf(response.data) IN
         IF freeModels = <<>> THEN FALLBACK_FREE_MODEL
         ELSE sortFreeModels(freeModels, <<>>)[1].id

findSuitableFreeModel(response) ==
    IF response.kind = "raise" THEN FALLBACK_FREE_MODEL
    ELSE IF response.kind \in {"none", "nodata"} \/ response.data = <<>>
        THEN FALLBACK_FREE_MODEL
    ELSE LET freeModels == freeModelsOf(response.data) IN
         IF freeModels = <<>> THEN FALLBACK_FREE_MODEL
         ELSE sortFreeModels(freeModels, <<>>)[1].id

(***************************************************************************)
(* Inputs of the selector: what the catalog query can give.                *)
(***************************************************************************)
FreeIds == {"x:free", "free/y"}
PaidIds == {"z/fre"}

\* context_length and context_window as the provider's versions give them
ContextFields ==
    {<<Undef, Undef>>, <<JNum(8000), Undef>>, <<JNum(32000), Undef>>,
     <<Undef, JNum(8000)>>, <<Undef, JStr("32000")>>, <<JNum(8000), JStr("32000")>>,
     <<JNum(0), JNum(8000)>>}

CatalogModels ==
    {[id |-> i, context_length |-> f[1], context_window |-> f[2]] :
        i \in FreeIds, f \in ContextFields}
      \cup {[id |-> i, context_length |-> JNum(32000), context_window |-> Undef] : i \in PaidIds}

RECURSIVE ModelLists(_)
ModelLists(n) ==
    IF n = 0 THEN {<<>>}
    ELSE LET shorter == ModelLists(n - 1) IN
         shorter \cup {Append(s, m) : s \in {q \in shorter : Len(q) = n - 1},
                                      m \in CatalogModels}

ModelsResponses ==
    {[kind |-> "raise"], [kind |-> "none"], [kind |-> "nodata"]}
      \cup {[kind |-> "list", data |-> d] : d \in ModelLists(MaxCatalog)}

SelInit ==
    /\ modelsResponse \in ModelsResponses
    /\ selCalled = FALSE
    /\ selected = ""

SelectCall ==
    /\ ~selCalled
    /\ selCalled' = TRUE
    /\ selected' = findSuitableFreeModel(modelsResponse)
    /\ UNCHANGED <<modelsResponse, truncVars, envVars, callVars, concVars>>

(***************************************************************************)
(* Response Normalizer: handleGenerateImage from "const data =             *)
(* response.data" on.  The loops thread an accumulator: the results pushed *)
(* so far, the files written so far, and the error thrown ("" for none).   *)
(***************************************************************************)
EmptyAcc == [results |-> <<>>, writes |-> <<>>, error |-> ""]

Threw(acc, e) == [acc EXCEPT !.error = e]

Push(acc, part) == [acc EXCEPT !.results = Append(@, part)]

\* content parts; the fields hold JavaScript values
TextPartOf(text) == [type |-> "text", text |-> text]
ImagePartOf(mimeType, data) == [type |-> "image", mimeType |-> mimeType, data |-> data]

\* what a handler call ends in: a ToolResult returned, or an error thrown
Returned(content, isError) == [kind |-> "return", content |-> content, isError |-> isError]
Thrown(error) == [kind |-> "throw", error |-> error]

IsStr(x, s) == x.t = "str" /\ x.v = s

\* processResult with saveBase64Image: Buffer.from throws on a value that is
\* no string, the write throws when the path cannot be written
processResult(acc, base64Data, mimeType, args, fsWritable) ==
    LET save_path == Get(args, "save_path") IN
    IF Truthy(save_path)
    THEN IF base64Data.t # "str" \/ save_path.t # "str" \/ ~fsWritable
         THEN Threw(acc, "Error")
         ELSE [acc EXCEPT
                 !.writes = Append(@, [path |-> save_path.v,
                                       bytes |-> base64Decode(base64Data.v)]),
                 !.results = @ \o <<TextPartOf(JStr("Image saved to: " \o save_path.v)),
                                    ImagePartOf(mimeType, base64Data)>>]
    ELSE Push(acc, ImagePartOf(mimeType, base64Data))

\* the two groups of the match taken in the wrong order
imageUrlEntrySwapped(acc, url, args, fsWritable) ==
    IF url.t # "str" THEN Threw(acc, "TypeError")
    ELSE IF StartsWith(url.v, "data:")
    THEN LET match == matchDataUrl(url.v) IN
         IF match.ok
         THEN processResult(acc, JStr(match.mime), JStr(match.payload), args, fsWritable)
         ELSE acc
    ELSE Push(acc, TextPartOf(JStr("Generated image URL: " \o url.v)))

\* an entry with a url: a data URL is decoded, any other url is reported
imageUrlEntry(acc, url, args, fsWritable) ==
    IF url.t # "str" THEN Threw(acc, "TypeError")
    ELSE IF StartsWith(url.v, "data:")
    THEN LET match == matchDataUrl(url.v) IN
         IF match.ok
         THEN processResult(acc, JStr(match.payload), JStr(match.mime), args, fsWritable)
         ELSE acc
    ELSE Push(acc, TextPartOf(JStr("Generated image URL: " \o url.v)))

\* one step of "for (const img of images)"
imagesEntry(acc, img, args, fsWritable) ==
    IF IsNullish(img) THEN Threw(acc, "TypeError")
    ELSE IF IsStr(Get(img, "type"), "image_url")
            /\ Truthy(GetOpt(Get(img, "image_url"), "url"))
    THEN imageUrlEntry(acc, Get(Get(img, "image_url"), "url"), args, fsWritable)
    ELSE acc

RECURSIVE imagesLoop(_, _, _, _)
imagesLoop(images, acc, args, fsWritable) ==
    IF images = <<>> \/ acc.error # "" THEN acc
    ELSE imagesLoop(Tail(images), imagesEntry(acc, Head(images), args, fsWritable),
                    args, fsWritable)

\* one step of "for (const part of content)"
contentPart(acc, part, args, fsWritable) ==
    IF IsNullish(part) THEN Threw(acc, "TypeError")
    ELSE IF IsStr(Get(part, "type"), "image_url")
            /\ Truthy(GetOpt(Get(part, "image_url"), "url"))
    THEN imageUrlEntry(acc, Get(Get(part, "image_url"), "url"), args, fsWritable)
    ELSE IF IsStr(Get(part, "type"), "inline_data") \/ Truthy(Get(part, "inline_data"))
    THEN LET inlineData == IF Truthy(Get(part, "inline_data"))
                           THEN Get(part, "inline_data") ELSE part IN
         IF Truthy(Get(inlineData, "data")) /\ Truthy(Get(inlineData, "mime_type"))
         THEN processResult(acc, Get(inlineData, "data"), Get(inlineData, "mime_type"),
                            args, fsWritable)
         ELSE acc
    ELSE IF IsStr(Get(part, "type"), "image") /\ Truthy(Get(part, "data"))
    THEN LET mimeType == IF Truthy(Get(part, "mime_type")) THEN Get(part, "mime_type")
                         ELSE IF Truthy(Get(part, "mimeType")) THEN Get(part, "mimeType")
                         ELSE JStr("image/png") IN
         processResult(acc, Get(part, "data"), mimeType, args, fsWritable)
    ELSE IF IsStr(Get(part, "type"), "text") /\ Truthy(Get(part, "text"))
    THEN Push(acc, TextPartOf(Get(part, "text")))
    ELSE IF Truthy(Get(part, "url"))
    THEN IF Get(part, "url").t # "str" THEN Threw(acc, "TypeError")
         ELSE IF StartsWith(Get(part, "url").v, "data:")
         THEN LET match == matchDataUrl(Get(part, "url").v) IN
              IF match.ok
              THEN processResult(acc, JStr(match.payload), JStr(match.mime), args, fsWritable)
              ELSE acc
         ELSE acc
    ELSE acc

RECURSIVE contentLoop(_, _, _, _)
contentLoop(parts, acc, args, fsWritable) ==
    IF parts = <<>> \/ acc.error # "" THEN acc
    ELSE contentLoop(Tail(parts), contentPart(acc, Head(parts), args, fsWritable),
                     args, fsWritable)

\* one step of "for (const part of content.parts)"
partsEntry(acc, part, args, fsWritable) ==
    IF IsNullish(part) THEN Threw(acc, "TypeError")
    ELSE IF Truthy(Get(part, "inline_data"))
    THEN processResult(acc, Get(Get(part, "inline_data"), "data"),
                       Get(Get(part, "inline_data"), "mime_type"), args, fsWritable)
    ELSE IF Truthy(Get(part, "text")) THEN Push(acc, TextPartOf(Get(part, "text")))
    ELSE acc

RECURSIVE partsLoop(_, _, _, _)
partsLoop(parts, acc, args, fsWritable) ==
    IF parts = <<>> \/ acc.error # "" THEN acc
    ELSE partsLoop(Tail(parts), partsEntry(acc, Head(parts), args, fsWritable),
                   args, fsWritable)

\* the characters of a string, as "for ... of" iterates them
RECURSIVE CharsOf(_)
CharsOf(s) == IF s = "" THEN <<>> ELSE <<JStr(CharAt(s, 1))>> \o CharsOf(Tail(s))

TypeOf(x) ==
    CASE x.t = "undefined" -> "undefined"
      [] x.t = "num" -> "number"
      [] x.t = "str" -> "string"
      [] OTHER -> "object"

RESPONSE_LOG_LIMIT == 500
MESSAGE_LOG_LIMIT == 2000

\* the fallback's diagnostic text
debugText(message, content) ==
    "DEBUG: Content type=" \o TypeOf(content)
        \o ", isArray=" \o (IF content.t = "arr" THEN "true" ELSE "false")
        \o ", keys=" \o (IF Truthy(content) THEN ObjectKeysJoined(content) ELSE "null")
        \o ". Full message: " \o Substring0(JSONstringify(message), MESSAGE_LOG_LIMIT)

\* how the try block ends once a loop has run: its error thrown, or its
\* results returned
Finish(acc) ==
    [outcome |-> IF acc.error # "" THEN Thrown(acc.error) ELSE Returned(acc.results, FALSE),
     writes |-> acc.writes]

Single(part, isError) == [outcome |-> Returned(<<part>>, isError), writes |-> <<>>]

\* the search for a URL made before the search for embedded data
normalizeScalarContentUrlFirst(message, content, args, fsWritable) ==
    IF content.t = "str"
    THEN LET base64Match == matchEmbeddedImage(content.v)
             urlMatch == matchImageUrl(content.v)
         IN IF urlMatch.ok
            THEN Single(TextPartOf(JStr("Generated image URL: " \o urlMatch.whole)), FALSE)
            ELSE IF base64Match.ok
            THEN Finish(processResult(EmptyAcc, JStr(base64Match.payload),
                                      JStr("image/" \o base64Match.mime), args, fsWritable))
            ELSE Single(TextPartOf(content), FALSE)
    ELSE Single(TextPartOf(JStr(debugText(message, content))), FALSE)

\* 2. content is a string, 3. content has parts, and the fallback
normalizeScalarContent(message, content, args, fsWritable) ==
    IF content.t = "str"
    THEN LET base64Match == matchEmbeddedImage(content.v)
             urlMatch == matchImageUrl(content.v)
         IN IF base64Match.ok
            THEN Finish(processResult(EmptyAcc, JStr(base64Match.payload),
                                      JStr("image/" \o base64Match.mime), args, fsWritable))
            ELSE IF urlMatch.ok
            THEN Single(TextPartOf(JStr("Generated image URL: " \o urlMatch.whole)), FALSE)
            ELSE Single(TextPartOf(content), FALSE)
    ELSE LET parts == GetOpt(content, "parts")
             fallback == Single(TextPartOf(JStr(debugText(message, content))), FALSE)
         IN IF ~Truthy(parts) THEN fallback
            ELSE IF parts.t \notin {"arr", "str"}
            THEN [outcome |-> Thrown("TypeError"), writes |-> <<>>]
            ELSE LET acc == partsLoop(IF parts.t = "arr" THEN parts.v ELSE CharsOf(parts.v),
                                      EmptyAcc, args, fsWritable)
                 IN IF acc.error = "" /\ acc.results = <<>> THEN fallback ELSE Finish(acc)

\* 0. the images array, 1. content is an array, then the rest
normalizeMessage(message, args, fsWritable) ==
    LET content == Get(message, "content")
        images == Get(message, "images")
        lead == IF content.t = "str" /\ Trim(content.v) # ""
                THEN Push(EmptyAcc, TextPartOf(content)) ELSE EmptyAcc
        fromImages == IF images.t = "arr" /\ images.v # <<>>
                      THEN imagesLoop(images.v, lead, args, fsWritable) ELSE EmptyAcc
        fromContent == IF content.t = "arr"
                       THEN contentLoop(content.v, EmptyAcc, args, fsWritable) ELSE EmptyAcc
    IN IF fromImages.error # "" \/ fromImages.results # <<>> THEN Finish(fromImages)
       ELSE IF fromContent.error # "" \/ fromContent.results # <<>> THEN Finish(fromContent)
       ELSE normalizeScalarContent(message, content, args, fsWritable)

\* the check for choices without its test of the length
normalizeResponseNoLengthTest(data, args, fsWritable) ==
    IF IsNullish(data) THEN [outcome |-> Thrown("TypeError"), writes |-> <<>>]
    ELSE LET choices == Get(data, "choices") IN
         IF ~Truthy(choices)
         THEN Single(TextPartOf(JStr("No response from model. Raw response: "
                        \o Substring0(JSONstringify(data), RESPONSE_LOG_LIMIT))), TRUE)
         ELSE IF IsNullish(First(choices)) \/ IsNullish(Get(First(choices), "message"))
         THEN [outcome |-> Thrown("TypeError"), writes |-> <<>>]
         ELSE normalizeMessage(Get(First(choices), "message"), args, fsWritable)

\* the try block of handleGenerateImage once the response has arrived, with
\* its catch: an error that is no AxiosError is thrown again
normalizeResponse(data, args, fsWritable) ==
    IF IsNullish(data) THEN [outcome |-> Thrown("TypeError"), writes |-> <<>>]
    ELSE LET choices == Get(data, "choices") IN
         IF ~Truthy(choices) \/ LengthOf(choices) = JNum(0)
         THEN Single(TextPartOf(JStr("No response from model. Raw response: "
                        \o Substring0(JSONstringify(data), RESPONSE_LOG_LIMIT))), TRUE)
         ELSE IF IsNullish(First(choices)) \/ IsNullish(Get(First(choices), "message"))
         THEN [outcome |-> Thrown("TypeError"), writes |-> <<>>]
         ELSE normalizeMessage(Get(First(choices), "message"), args, fsWritable)

(***************************************************************************)
(* Server bootstrap: OpenRouterMultimodalServer and ToolHandlers.  A model *)
(* id is a string, "" where the code has undefined or an empty string.     *)
(***************************************************************************)
DEFAULT_MODEL == "qwen/qwen2.5-vl-32b-instruct:free"
DEFAULT_IMAGE_MODEL == "google/gemini-2.5-flash-image"
MAX_CONTEXT_TOKENS == 200000
ERROR_TEXT_LIMIT == 500

\* a || b || c on model ids
OrElse(a, b) == IF a # "" THEN a ELSE b

\* the defaultModel the handlers get: index.ts falls back to DEFAULT_MODEL,
\* a ToolHandlers constructed on its own gets the argument as it is
constructorDefaultModel(cfg) ==
    IF cfg.bootstrap = "index"
    THEN OrElse(cfg.optionsDefaultModel, OrElse(cfg.envDefaultModel, DEFAULT_MODEL))
    ELSE cfg.optionsDefaultModel

(***************************************************************************)
(* Tool Dispatch Router.                                                   *)
(***************************************************************************)
ToolRegistry ==
    {"mcp_openrouter_chat_completion", "mcp_openrouter_analyze_image",
     "mcp_openrouter_multi_image_analysis", "search_models", "get_model_info",
     "validate_model", "generate_image"}

\* the switch with the case of validate_model left out
routeToolMissingCase(name) ==
    CASE name = "mcp_openrouter_chat_completion" -> "handleChatCompletion"
      [] name = "mcp_openrouter_analyze_image" -> "handleAnalyzeImage"
      [] name = "mcp_openrouter_multi_image_analysis" -> "handleMultiImageAnalysis"
      [] name = "search_models" -> "handleSearchModels"
      [] name = "get_model_info" -> "handleGetModelInfo"
      [] name = "generate_image" -> "handleGenerateImage"
      [] OTHER -> ""

\* the switch on request.params.name: the handler called, "" in the default case
routeTool(name) ==
    CASE name = "mcp_openrouter_chat_completion" -> "handleChatCompletion"
      [] name = "mcp_openrouter_analyze_image" -> "handleAnalyzeImage"
      [] name = "mcp_openrouter_multi_image_analysis" -> "handleMultiImageAnalysis"
      [] name = "search_models" -> "handleSearchModels"
      [] name = "get_model_info" -> "handleGetModelInfo"
      [] name = "validate_model" -> "handleValidateModel"
      [] name = "generate_image" -> "handleGenerateImage"
      [] OTHER -> ""

\* "return handleX(...)": the router gives back what the handler ended in
routerReturn(handlerEnd) == handlerEnd

NoOutcome == [kind |-> "none"]

\* what the synchronous part of a handler leaves: where the call waits, the
\* model chosen, the requests sent, and the outcome when it has ended
Step(at, chosen, sent, ended) ==
    [pc |-> at, model |-> chosen, sent |-> sent, outcome |-> ended]

Ended(outcome_) == Step("done", "", <<>>, outcome_)

(***************************************************************************)
(* handleChatCompletion.                                                   *)
(***************************************************************************)
ModelArg(args) == IF Get(args, "model").t = "str" THEN Get(args, "model").v ELSE ""

\* openai.chat.completions.create({model, messages, temperature, max_tokens})
completionRequest(chosen, args) ==
    [api |-> "chat.completions.create",
     model |-> chosen,
     messages |-> truncateMessagesToFit(Get(args, "messages").v, MAX_CONTEXT_TOKENS),
     temperature |-> IF IsNullish(Get(args, "temperature")) THEN JNum(1)
                     ELSE Get(args, "temperature"),
     max_tokens |-> IF Truthy(Get(args, "max_tokens")) THEN Get(args, "max_tokens")
                    ELSE Undef]

\* let model = args.model || defaultModel
selectModel(args, default) == OrElse(ModelArg(args), default)

\* from the call to the first await
chatCompletionStart(args, default) ==
    IF IsNullish(args) \/ IsNullish(Get(args, "messages"))
    THEN Ended(Thrown("TypeError"))
    ELSE IF LengthOf(Get(args, "messages")) = JNum(0)
    THEN Ended(Returned(<<TextPartOf(JStr(
            "Messages array cannot be empty. At least one message is required."))>>, TRUE))
    ELSE LET chosen == selectModel(args, default) IN
         IF chosen = ""
         THEN Step("awaitModels", "", <<[api |-> "models.list"]>>, NoOutcome)
         ELSE Step("awaitCompletion", chosen, <<completionRequest(chosen, args)>>, NoOutcome)

\* from the catalog's answer to the completion request
chatCompletionSelected(args, response) ==
    LET chosen == findSuitableFreeModel(response) IN
    Step("awaitCompletion", chosen, <<completionRequest(chosen, args)>>, NoOutcome)

\* the catch of handleChatCompletion
chatCompletionCatch(error) ==
    IF error.class \in {"Error", "TypeError", "APIError"}
    THEN Returned(<<TextPartOf(JStr("OpenRouter API error: " \o error.message))>>, TRUE)
    ELSE Thrown(error.class)

\* from the completion's answer to the result
chatCompletionEnd(reply) ==
    IF reply.kind = "error" THEN chatCompletionCatch(reply.error)
    ELSE LET choice == First(Get(reply.data, "choices")) IN
         IF IsNullish(choice) \/ IsNullish(Get(choice, "message"))
         THEN chatCompletionCatch([class |-> "TypeError",
                                   message |-> "Cannot read properties of undefined"])
         ELSE LET content == Get(Get(choice, "message"), "content") IN
              Returned(<<TextPartOf(IF Truthy(content) THEN content ELSE JStr(""))>>, FALSE)

(***************************************************************************)
(* handleGenerateImage, up to the response.                                *)
(***************************************************************************)
\* axios.post(".../chat/completions", {model, messages: [...]}, ...)
imageRequest(chosen, args) ==
    [api |-> "axios.post",
     model |-> chosen,
     messages |-> <<[role |-> "user",
                     content |-> JStr("Generate an image: " \o Get(args, "prompt").v)]>>]

\* whether the prompt check lets the call through
promptGiven(args) ==
    Get(args, "prompt").t = "str" /\ Trim(Get(args, "prompt").v) # ""

\* the request sent before the prompt is looked at
imageStartUnchecked(args) ==
    IF IsNullish(args) THEN Ended(Thrown("TypeError"))
    ELSE LET chosen == OrElse(ModelArg(args), DEFAULT_IMAGE_MODEL) IN
         IF Get(args, "prompt").t # "str" THEN Ended(Thrown("TypeError"))
         ELSE Step("awaitImage", chosen, <<imageRequest(chosen, args)>>, NoOutcome)

imageStart(args) ==
    IF IsNullish(args) THEN Ended(Thrown("TypeError"))
    ELSE IF ~promptGiven(args)
    THEN Ended(Returned(<<TextPartOf(JStr("Prompt is required for image generation."))>>, TRUE))
    ELSE LET chosen == OrElse(ModelArg(args), DEFAULT_IMAGE_MODEL) IN
         Step("awaitImage", chosen, <<imageRequest(chosen, args)>>, NoOutcome)

\* the catch of handleGenerateImage on a failed request
imageCatch(error) ==
    IF error.class = "AxiosError"
    THEN LET data == GetOpt(error.response, "data")
             errorMessage == IF Truthy(GetOpt(GetOpt(data, "error"), "message"))
                             THEN Get(Get(data, "error"), "message")
                             ELSE IF Truthy(data) THEN data
                             ELSE JStr(error.message)
         IN Returned(<<TextPartOf(JStr("OpenRouter API error: "
                \o Substring0(JSONstringify(errorMessage), ERROR_TEXT_LIMIT)))>>, TRUE)
    ELSE Thrown(error.class)

\* from the response to the result
imageEnd(reply, args, fsWritable) ==
    IF reply.kind = "error" THEN [outcome |-> imageCatch(reply.error), writes |-> <<>>]
    ELSE normalizeResponse(reply.data, args, fsWritable)

(***************************************************************************)
(* The server: one tool call from the router to its result.  The handlers  *)
(* of the five tools whose files are not part of the sources are opaque.   *)
(***************************************************************************)
Obj1(k1, v1) == JObj(<< <<k1, v1>> >>)
Obj2(k1, v1, k2, v2) == JObj(<< <<k1, v1>>, <<k2, v2>> >>)
Obj3(k1, v1, k2, v2, k3, v3) == JObj(<< <<k1, v1>>, <<k2, v2>>, <<k3, v3>> >>)

ServerConfigs ==
    {[bootstrap |-> "index", optionsDefaultModel |-> o, envDefaultModel |-> e] :
        o \in {"", "cfg/model"}, e \in {"", "env/model"}}
      \cup {[bootstrap |-> "ToolHandlers", optionsDefaultModel |-> o, envDefaultModel |-> ""] :
                o \in {"", "cfg/model"}}

CatalogModel(id, len) == [id |-> id, context_length |-> len, context_window |-> Undef]

ServerCatalogs ==
    {<<>>,
     <<CatalogModel("z/fre", JNum(32000))>>,
     <<CatalogModel("z/fre", JNum(8000)), CatalogModel("x:free", JNum(32000))>>,
     <<CatalogModel("x:free", JNum(8000)), CatalogModel("free/y", JNum(32000))>>}

UserMessage(i, text) == [id |-> i, role |-> "user", content |-> JStr(text)]

ChatArguments ==
    {Undef,
     Obj1("model", JStr("user/model")),
     Obj1("messages", JArr(<<>>)),
     Obj1("messages", JArr(<<UserMessage(1, "hi")>>)),
     Obj2("messages", JArr(<<UserMessage(1, "hi")>>), "model", JStr("user/model")),
     Obj3("messages", JArr(<<[id |-> 1, role |-> "system", content |-> JStr("abcd")],
                             UserMessage(2, "hi")>>),
          "temperature", JNum(0), "max_tokens", JNum(64))}

ImageArguments ==
    {Undef,
     Obj1("model", JStr("img/model")),
     Obj1("prompt", JStr("")),
     Obj1("prompt", JStr("  ")),
     Obj1("prompt", JStr("a cat")),
     Obj2("prompt", JStr("a cat"), "model", JStr("img/model")),
     Obj2("prompt", JStr("a cat"), "save_path", JStr("/out/a.png"))}

OpaqueArguments == {Undef, Obj1("model", JStr("user/model"))}

ToolNames == ToolRegistry \cup {"no_such_tool", ""}

ArgumentsOf(name) ==
    CASE name = "mcp_openrouter_chat_completion" -> ChatArguments
      [] name = "generate_image" -> ImageArguments
      [] OTHER -> OpaqueArguments

\* a text longer than the display limit
RECURSIVE Repeat(_, _)
Repeat(c, n) ==
    IF n = 0 THEN ""
    ELSE IF n = 1 THEN c
    ELSE Repeat(c, n \div 2) \o Repeat(c, n - (n \div 2))
LongMessage == "upstream " \o Repeat("x", ERROR_TEXT_LIMIT)

CompletionOf(content) ==
    Obj1("choices", JArr(<<Obj1("message", Obj2("role", JStr("assistant"), "content", content))>>))

CompletionReplies ==
    {[kind |-> "ok", data |-> d] :
        d \in {CompletionOf(JStr("hello")), CompletionOf(JNull), Obj1("choices", JArr(<<>>))}}
      \cup {[kind |-> "error", error |-> [class |-> c, message |-> m]] :
                c \in {"APIError", "Error", "NonError"},
                m \in {"401 No auth credentials found", LongMessage}}

AxiosError(response, message) ==
    [class |-> "AxiosError", response |-> response, message |-> message]

ImageErrors ==
    {AxiosError(Undef, "timeout of 120000ms exceeded"),
     AxiosError(Obj2("status", JNum(402), "data",
                     Obj1("error", Obj1("message", JStr("Insufficient credits")))),
                "Request failed with status code 402"),
     AxiosError(Obj2("status", JNum(500), "data",
                     Obj1("error", Obj1("message", JStr(LongMessage)))),
                "Request failed with status code 500"),
     AxiosError(Obj2("status", JNum(502), "data", JStr("Bad Gateway")),
                "Request failed with status code 502"),
     AxiosError(Obj2("status", JNum(503), "data", JStr("")),
                "Request failed with status code 503"),
     [class |-> "Error", response |-> Undef, message |-> "socket hang up"]}

ImageReplies(payloads) ==
    {[kind |-> "ok", data |-> d] : d \in payloads}
      \cup {[kind |-> "error", error |-> e] : e \in ImageErrors}

\* what an opaque handler ends in: an error result when the arguments are
\* missing, else any result
OpaqueResults(args) ==
    IF IsNullish(args)
    THEN {Returned(<<TextPartOf(JStr("invalid arguments"))>>, TRUE)}
    ELSE {Returned(<<TextPartOf(JStr("result"))>>, FALSE),
          Returned(<<TextPartOf(JStr("upstream error"))>>, TRUE)}

(***************************************************************************)
(* Provider response payloads.                                             *)
(***************************************************************************)
ImageUrlEntry(url) == Obj2("type", JStr("image_url"), "image_url", Obj1("url", url))

DataUrlPng == JStr("data:image/png;base64,QQ==")
HttpUrl == JStr("https://cdn.example/a.png")

\* entries of message.images
ImagesEntries ==
    {ImageUrlEntry(DataUrlPng), ImageUrlEntry(HttpUrl),
     ImageUrlEntry(JStr("data:image/png,QQ==")), ImageUrlEntry(JNum(5)),
     Obj1("type", JStr("other")), JNull}

\* parts of an array-valued message.content
ContentParts ==
    {ImageUrlEntry(DataUrlPng), ImageUrlEntry(HttpUrl),
     Obj3("type", JStr("inline_data"), "data", JStr("QQ=="), "mime_type", JStr("image/png")),
     Obj1("inline_data", Obj2("data", JStr("TWFu"), "mime_type", JStr("image/jpeg"))),
     Obj2("type", JStr("image"), "data", JStr("TWE=")),
     Obj2("type", JStr("text"), "text", JStr("hello")),
     Obj1("url", JStr("data:image/gif;base64,TWFu")),
     Obj1("url", JNum(5)),
     Obj1("type", JStr("audio")),
     JNull}

RECURSIVE SeqsUpTo(_, _)
SeqsUpTo(S, n) ==
    IF n = 0 THEN {<<>>}
    ELSE LET shorter == SeqsUpTo(S, n - 1) IN
         shorter \cup {Append(s, x) : s \in {q \in shorter : Len(q) = n - 1}, x \in S}

ScalarContents ==
    {Undef, JNull, JNum(7), JStr(""), JStr("  "), JStr("a drawing"),
     JStr("see image at data:image/png;base64,QQ=="),
     JStr("look at https://cdn.example/a.png now"),
     JStr("https://cdn.example/a.png or data:image/gif;base64,TWFu"),
     JStr("HTTP://CDN.EXAMPLE/B.JPG"),
     JStr("data:image/bmp;base64,QQ=="),
     Obj1("parts", JArr(<<Obj1("text", JStr("hello")),
                          Obj1("inline_data", Obj2("data", JStr("QQ=="),
                                                   "mime_type", JStr("image/png")))>>)),
     Obj1("parts", JArr(<<Obj1("inline_data", JStr("x")), JNull>>)),
     Obj1("parts", JArr(<<Obj1("other", JNum(1))>>)),
     Obj1("parts", JNum(5)),
     Obj1("parts", JStr("ab")),
     Obj1("role", JStr("model"))}

ArrayContents == {JArr(a) : a \in SeqsUpTo(ContentParts, MaxParts)}

ImagesArrays == {JArr(a) : a \in SeqsUpTo(ImagesEntries, MaxParts)}

MessageOf(content, images) ==
    JObj((IF content = Undef THEN <<>> ELSE << <<"content", content>> >>)
            \o (IF images = Undef THEN <<>> ELSE << <<"images", images>> >>))

ResponseOf(message) == Obj1("choices", JArr(<<Obj1("message", message)>>))

\* responses with no usable first choice
ChoicelessPayloads ==
    {JNull, JStr("Bad Gateway"), Obj1("id", JStr("gen-1")), Obj1("choices", JArr(<<>>)),
     Obj1("choices", JArr(<<JNull>>)), Obj1("choices", JStr("ab")),
     Obj1("choices", JArr(<<Obj1("index", JNum(0))>>)),
     Obj1("choices", JArr(<<Obj1("message", JNull)>>))}

\* one base64 payload in the images-array dialect and as an inline_data part
DialectMimes == {"image/png", "image/jpeg"}

DialectPayloads == {"QQ==", "TWFu"}

ImagesDialect(mime, payload) ==
    ResponseOf(MessageOf(Undef,
        JArr(<<ImageUrlEntry(JStr("data:" \o mime \o ";base64," \o payload))>>)))

InlineDataDialect(mime, payload) ==
    ResponseOf(MessageOf(
        JArr(<<Obj3("type", JStr("inline_data"), "data", JStr(payload),
                    "mime_type", JStr(mime))>>), Undef))

NestedInlineDataDialect(mime, payload) ==
    ResponseOf(MessageOf(
        JArr(<<Obj1("inline_data", Obj2("data", JStr(payload), "mime_type", JStr(mime)))>>),
        Undef))

DialectPayloadsOf(mime, payload) ==
    {ImagesDialect(mime, payload), InlineDataDialect(mime, payload),
     NestedInlineDataDialect(mime, payload)}

\* every content without images, and the scalar contents with every images
NormPayloads ==
    ChoicelessPayloads
      \cup UNION {DialectPayloadsOf(m, p) : m \in DialectMimes, p \in DialectPayloads}
      \cup {ResponseOf(MessageOf(c, i)) :
                c \in ScalarContents \cup ArrayContents,
                i \in {Undef, JArr(<<>>), JStr("none"), JArr(<<Obj1("type", JStr("other"))>>)}}
      \cup {ResponseOf(MessageOf(c, i)) :
                c \in ScalarContents \cup {JArr(<<Obj2("type", JStr("text"), "text", JStr("hello"))>>)},
                i \in ImagesArrays}

ServerPayloads ==
    {JNull, Obj1("choices", JArr(<<>>)),
     ResponseOf(MessageOf(JStr("a drawing"), JArr(<<ImageUrlEntry(DataUrlPng)>>))),
     ResponseOf(MessageOf(JArr(<<Obj2("type", JStr("text"), "text", JStr("hello")), JNull>>), Undef)),
     ResponseOf(MessageOf(JStr("see image at data:image/png;base64,QQ=="), Undef)),
     ResponseOf(MessageOf(JNull, Undef))}

(***************************************************************************)
(* Actions.                                                                *)
(***************************************************************************)
\* the router's handler for CallToolRequestSchema, up to the handler's first
\* await
CallTool ==
    /\ pc = "idle"
    /\ \E name \in ToolNames : \E arguments \in ArgumentsOf(name) :
        LET handler == routeTool(name)
            step == CASE handler = "handleChatCompletion" ->
                            chatCompletionStart(arguments, defaultModel)
                      [] handler = "handleGenerateImage" -> imageStart(arguments)
                      [] handler = "" -> Ended(Thrown("MethodNotFound"))
                      [] OTHER -> Step("awaitHandler", "", <<>>, NoOutcome)
        IN /\ request' = [name |-> name, arguments |-> arguments]
           /\ invoked' = IF handler = "" THEN invoked ELSE Append(invoked, handler)
           /\ pc' = step.pc
           /\ callModel' = step.model
           /\ outbound' = outbound \o step.sent
           /\ handlerOutcome' = IF handler = "" THEN NoOutcome ELSE step.outcome
           /\ outcome' = IF handler = "" THEN step.outcome ELSE routerReturn(step.outcome)
    /\ UNCHANGED <<inbound, writes, truncVars, selVars, envVars, concVars>>

\* openai.models.list() settles: findSuitableFreeModel returns and the
\* completion request is sent
ModelsReply ==
    /\ pc = "awaitModels"
    /\ \E kind \in {"raise", "none", "nodata", "list"} :
        LET response == IF kind = "list" THEN [kind |-> "list", data |-> catalog]
                        ELSE [kind |-> kind]
            step == chatCompletionSelected(request.arguments, response)
        IN /\ inbound' = Append(inbound, response)
           /\ pc' = step.pc
           /\ callModel' = step.model
           /\ outbound' = outbound \o step.sent
    /\ UNCHANGED <<request, invoked, handlerOutcome, outcome, writes, truncVars, selVars, envVars, concVars>>

\* openai.chat.completions.create() settles
CompletionReply ==
    /\ pc = "awaitCompletion"
    /\ \E reply \in CompletionReplies :
        /\ inbound' = Append(inbound, reply)
        /\ handlerOutcome' = chatCompletionEnd(reply)
        /\ outcome' = routerReturn(chatCompletionEnd(reply))
    /\ pc' = "done"
    /\ UNCHANGED <<request, callModel, outbound, invoked, writes, truncVars, selVars, envVars, concVars>>

\* axios.post() settles, with a response out of payloads or with an error
ImageReply(payloads) ==
    /\ pc = "awaitImage"
    /\ \E reply \in ImageReplies(payloads) :
        LET end == imageEnd(reply, request.arguments, diskWritable) IN
        /\ inbound' = Append(inbound, reply)
        /\ handlerOutcome' = end.outcome
        /\ outcome' = routerReturn(end.outcome)
        /\ writes' = writes \o end.writes
    /\ pc' = "done"
    /\ UNCHANGED <<request, callModel, outbound, invoked, truncVars, selVars, envVars, concVars>>

\* one of the five opaque handlers ends
OpaqueHandlerReturns ==
    /\ pc = "awaitHandler"
    /\ \E result \in OpaqueResults(request.arguments) :
        /\ handlerOutcome' = result
        /\ outcome' = routerReturn(result)
    /\ pc' = "done"
    /\ UNCHANGED <<request, callModel, outbound, inbound, invoked, writes, truncVars, selVars, envVars, concVars>>

CallIdle ==
    /\ pc = "idle"
    /\ request = [name |-> "", arguments |-> Undef]
    /\ callModel = ""
    /\ outbound = <<>>
    /\ inbound = <<>>
    /\ invoked = <<>>
    /\ handlerOutcome = NoOutcome
    /\ outcome = NoOutcome
    /\ writes = <<>>

EnvInit ==
    /\ config \in ServerConfigs
    /\ defaultModel = constructorDefaultModel(config)
    /\ catalog \in ServerCatalogs
    /\ diskWritable \in BOOLEAN

\* the environment of the specifications that apply one function
EnvIdle ==
    /\ config = [bootstrap |-> "index", optionsDefaultModel |-> "", envDefaultModel |-> ""]
    /\ defaultModel = constructorDefaultModel(config)
    /\ catalog = <<>>
    /\ diskWritable = TRUE

\* handleGenerateImage waiting for the response to a valid request
NormInit ==
    /\ config = [bootstrap |-> "index", optionsDefaultModel |-> "", envDefaultModel |-> ""]
    /\ defaultModel = constructorDefaultModel(config)
    /\ catalog = <<>>
    /\ diskWritable \in BOOLEAN
    /\ \E arguments \in {a \in ImageArguments : imageStart(a).pc = "awaitImage"} :
        /\ request = [name |-> "generate_image", arguments |-> arguments]
        /\ pc = imageStart(arguments).pc
        /\ callModel = imageStart(arguments).model
        /\ outbound = imageStart(arguments).sent
    /\ inbound = <<>>
    /\ invoked = <<"handleGenerateImage">>
    /\ handlerOutcome = NoOutcome
    /\ outcome = NoOutcome
    /\ writes = <<>>

(***************************************************************************)
(* Claims about the truncator.                                             *)
(***************************************************************************)
HasLeadingSystem == messages # <<>> /\ messages[1].role = "system"

NonSystemMessages == IF HasLeadingSystem THEN Tail(messages) ELSE messages

SuffixFrom(s, k) == SubSeq(s, k + 1, Len(s))

\* the estimate the specification gives for one message: ceil(chars/4) for a
\* string, and for parts the text parts' ceil(chars/4) plus 1000 per image
RECURSIVE StatedPartsCost(_)
StatedPartsCost(parts) ==
    IF parts = <<>> THEN 0
    ELSE (IF Head(parts).type = "image_url" THEN 1000
          ELSE (Len(Head(parts).text) + 3) \div 4) + StatedPartsCost(Tail(parts))

StatedCost(m) ==
    CASE m.content.t = "str" -> (Len(m.content.v) + 3) \div 4
      [] m.content.t = "arr" -> StatedPartsCost(m.content.v)
      [] OTHER -> 0

RECURSIVE StatedTotal(_)
StatedTotal(ms) == IF ms = <<>> THEN 0 ELSE StatedCost(Head(ms)) + StatedTotal(Tail(ms))

\* C2: the output of truncateMessagesToFit is the leading system message, when
\* there is one, followed by a contiguous suffix of the other messages in
\* their original order.
C2_LeadingSystemThenSuffix ==
    truncCalled =>
        \E k \in 0..Len(NonSystemMessages) :
            truncated = (IF HasLeadingSystem THEN <<messages[1]>> ELSE <<>>)
                            \o SuffixFrom(NonSystemMessages, k)

\* C3: a leading system message whose own estimated cost is within the budget
\* is the first element of the output.
C3_SystemMessageFirst ==
    (truncCalled /\ HasLeadingSystem /\ StatedCost(messages[1]) <= maxTokens) =>
        (truncated # <<>> /\ truncated[1] = messages[1])

\* C4: when the leading system message alone fits (or there is none), the
\* total estimated cost of the output, system message included, is at most
\* maxTokens.
C4_TotalWithinBudget ==
    (truncCalled /\ (HasLeadingSystem => StatedCost(messages[1]) <= maxTokens)) =>
        StatedTotal(truncated) <= maxTokens

(***************************************************************************)
(* Claims about the selector.                                              *)
(***************************************************************************)
IsZeroCost(m) == Includes(m.id, "free")

\* the advertised context length: context_length, else context_window, else 0
AdvertisedContextLength(m) ==
    IF m.context_length.t = "num" THEN m.context_length.v
    ELSE IF m.context_window.t = "num" THEN m.context_window.v
    ELSE IF m.context_window.t = "str" THEN LeadingDigits(m.context_window.v, 0)
    ELSE 0

CatalogHasZeroCost ==
    /\ modelsResponse.kind = "list"
    /\ \E i \in 1..Len(modelsResponse.data) : IsZeroCost(modelsResponse.data[i])

\* C9: on a catalog with a zero-cost id, findSuitableFreeModel returns a
\* zero-cost id whose advertised context length is the largest among the
\* zero-cost ids, the first such in catalog order.
C9_LargestContextFirstSeen ==
    (selCalled /\ CatalogHasZeroCost) =>
        LET data == modelsResponse.data IN
        \E i \in 1..Len(data) :
            /\ IsZeroCost(data[i])
            /\ selected = data[i].id
            /\ \A j \in 1..Len(data) :
                    IsZeroCost(data[j]) =>
                        /\ AdvertisedContextLength(data[j]) <= AdvertisedContextLength(data[i])
                        /\ j < i => AdvertisedContextLength(data[j]) < AdvertisedContextLength(data[i])

\* a tie at the largest length between two different zero-cost ids, behind a
\* paid model, resolved to the id seen first
C9_Witness ==
    /\ selCalled
    /\ modelsResponse.kind = "list"
    /\ Len(modelsResponse.data) = 3
    /\ ~IsZeroCost(modelsResponse.data[1])
    /\ IsZeroCost(modelsResponse.data[2])
    /\ IsZeroCost(modelsResponse.data[3])
    /\ modelsResponse.data[2].id # modelsResponse.data[3].id
    /\ AdvertisedContextLength(modelsResponse.data[2]) = 32000
    /\ AdvertisedContextLength(modelsResponse.data[3]) = 32000
    /\ modelsResponse.data[3].context_window.t = "str"
    /\ selected = modelsResponse.data[2].id

(***************************************************************************)
(* Claims about the normalizer.                                            *)
(***************************************************************************)
LastInbound == inbound[Len(inbound)]

ResponseArrived == pc = "done" /\ inbound # <<>> /\ LastInbound.kind = "ok"

\* C1: whatever well-formed JSON the provider answers with, handleGenerateImage
\* returns a result, and the result has at least one content part.
C1_NormalizeNeverRaises ==
    (ResponseArrived /\ request.name = "generate_image") =>
        (handlerOutcome.kind = "return" /\ Len(handlerOutcome.content) >= 1)

(***************************************************************************)
(* Claims about the router and the handlers.                               *)
(***************************************************************************)
ChatTool == "mcp_openrouter_chat_completion"
ImageTool == "generate_image"

\* the required arguments of the call are missing or empty
RequiredArgumentsMissing ==
    \/ IsNullish(request.arguments)
    \/ /\ request.name = ChatTool
       /\ \/ IsNullish(Get(request.arguments, "messages"))
          \/ Get(request.arguments, "messages") = JArr(<<>>)
    \/ /\ request.name = ImageTool
       /\ \/ Get(request.arguments, "prompt").t # "str"
          \/ Trim(Get(request.arguments, "prompt").v) = ""

IsErrorResult(o) ==
    /\ o.kind = "return"
    /\ o.isError
    /\ \E i \in 1..Len(o.content) :
        o.content[i].type = "text" /\ o.content[i].text.t = "str" /\ o.content[i].text.v # ""

\* C5: a call of a known tool whose required arguments are missing or empty
\* ends in a ToolResult with isError = true and a text part, never in an
\* error thrown past the router.
C5_ValidationFailureIsResult ==
    (pc = "done" /\ request.name \in ToolRegistry /\ RequiredArgumentsMissing) =>
        IsErrorResult(outcome)

RegisteredHandler(name) ==
    CASE name = "mcp_openrouter_chat_completion" -> "handleChatCompletion"
      [] name = "mcp_openrouter_analyze_image" -> "handleAnalyzeImage"
      [] name = "mcp_openrouter_multi_image_analysis" -> "handleMultiImageAnalysis"
      [] name = "search_models" -> "handleSearchModels"
      [] name = "get_model_info" -> "handleGetModelInfo"
      [] name = "validate_model" -> "handleValidateModel"
      [] name = "generate_image" -> "handleGenerateImage"

SevenTools ==
    {"mcp_openrouter_chat_completion", "mcp_openrouter_analyze_image",
     "mcp_openrouter_multi_image_analysis", "search_models", "get_model_info",
     "validate_model", "generate_image"}

\* C6: a name outside the seven tools fails with MethodNotFound and no handler
\* is called; a name among them calls exactly its handler, and the router
\* gives back that handler's result unchanged.
C6_RouterDispatchesByName ==
    pc # "idle" =>
        IF request.name \in SevenTools
        THEN /\ invoked = <<RegisteredHandler(request.name)>>
             /\ outcome = handlerOutcome
             /\ pc = "done" => outcome # NoOutcome
        ELSE /\ invoked = <<>>
             /\ handlerOutcome = NoOutcome
             /\ outbound = <<>>
             /\ pc = "done"
             /\ outcome = Thrown("MethodNotFound")

\* a known tool dispatched to its handler, whose image result came back
C6_Witness ==
    /\ pc = "done"
    /\ request.name = "generate_image"
    /\ invoked = <<"handleGenerateImage">>
    /\ outcome.kind = "return"
    /\ ~outcome.isError
    /\ \E i \in 1..Len(outcome.content) : outcome.content[i].type = "image"

CompletionApis == {"chat.completions.create", "axios.post"}

\* the completion requests among the requests sent
CompletionRequests == SelectSeq(outbound, LAMBDA r : r.api \in CompletionApis)

RequestFailed ==
    /\ pc = "done"
    /\ inbound # <<>>
    /\ LastInbound.kind = "error"

ErrorPrefix == "OpenRouter API error: "

\* the text of the one text part of an error result, "" when there is none
ErrorText(o) ==
    IF o.kind = "return" /\ o.isError /\ Len(o.content) = 1
        /\ o.content[1].type = "text" /\ o.content[1].text.t = "str"
    THEN o.content[1].text.v ELSE ""

\* C7: whatever error the failed completion request raised, the
\* handler returns an error result whose text carries the upstream message
\* cut for display, and only one completion request was sent.
C7_AnyFailureIsTruncatedResult ==
    RequestFailed =>
        /\ handlerOutcome.kind = "return"
        /\ handlerOutcome.isError
        /\ StartsWith(ErrorText(handlerOutcome), ErrorPrefix)
        /\ Len(ErrorText(handlerOutcome)) <= Len(ErrorPrefix) + ERROR_TEXT_LIMIT
        /\ Len(CompletionRequests) = 1

ZeroCostIds(models) == {models[i].id : i \in {j \in 1..Len(models) : IsZeroCost(models[j])}}

ExactlyOneZeroCost(models) ==
    Cardinality({j \in 1..Len(models) : IsZeroCost(models[j])}) = 1

ChatCallWithoutModel ==
    /\ request.name = ChatTool
    /\ ~IsNullish(request.arguments)
    /\ ModelArg(request.arguments) = ""
    /\ CompletionRequests # <<>>

SelectorConsulted == \E i \in 1..Len(outbound) : outbound[i].api = "models.list"

\* C8: in the running server, with exactly one zero-cost model in
\* the catalog, a chat-completion call without a model consults the selector
\* and sends its completion request with that model's id.
C8_ZeroCostModelUsed ==
    (ChatCallWithoutModel /\ config.bootstrap = "index" /\ ExactlyOneZeroCost(catalog)) =>
        /\ SelectorConsulted
        /\ CompletionRequests[1].model \in ZeroCostIds(catalog)

\* the catalog answer leaves the selector nothing to choose from
NothingToSelect(response) ==
    \/ response.kind \in {"raise", "none", "nodata"}
    \/ /\ response.kind = "list"
       /\ \A i \in 1..Len(response.data) : ~IsZeroCost(response.data[i])

\* C10: when the catalog query raises, or the catalog is missing or empty or
\* has no zero-cost model, findSuitableFreeModel returns the fallback id and
\* the chat-completion call goes on to its completion request with that id.
C10_FallbackModelUsed ==
    (SelectorConsulted /\ inbound # <<>> /\ NothingToSelect(inbound[1])) =>
        /\ callModel = "deepseek/deepseek-chat-v3-0324:free"
        /\ pc \in {"awaitCompletion", "done"}
        /\ Len(CompletionRequests) = 1
        /\ CompletionRequests[1].api = "chat.completions.create"
        /\ CompletionRequests[1].model = "deepseek/deepseek-chat-v3-0324:free"
        /\ handlerOutcome.kind # "throw" \/ LastInbound.kind = "error"

\* a catalog of paid models only: the call went on with the fallback id and
\* got its completion
C10_Witness ==
    /\ SelectorConsulted
    /\ Len(inbound) = 2
    /\ inbound[1].kind = "list"
    /\ inbound[1].data # <<>>
    /\ NothingToSelect(inbound[1])
    /\ CompletionRequests[1].model = "deepseek/deepseek-chat-v3-0324:free"
    /\ handlerOutcome = Returned(<<TextPartOf(JStr("hello"))>>, FALSE)

(***************************************************************************)
(* Claims about saving to disk and about the prompt check.                 *)
(***************************************************************************)
RECURSIVE WithoutKey(_, _)
WithoutKey(pairs, k) ==
    IF pairs = <<>> THEN <<>>
    ELSE IF Head(pairs)[1] = k THEN WithoutKey(Tail(pairs), k)
    ELSE <<Head(pairs)>> \o WithoutKey(Tail(pairs), k)

\* the same arguments with no save destination
WithoutSavePath(args) == JObj(WithoutKey(args.v, "save_path"))

SaveRequested ==
    /\ request.name = "generate_image"
    /\ ~IsNullish(request.arguments)
    /\ Truthy(Get(request.arguments, "save_path"))

SavedPathPart == TextPartOf(JStr("Image saved to: " \o Get(request.arguments, "save_path").v))

IsImagePart(part) == part.type = "image"

\* the parts of a result other than the reports of the saved path
WithoutSavedPathParts(content) == SelectSeq(content, LAMBDA part : part # SavedPathPart)

EachImageAfterSavedPath(content) ==
    \A i \in 1..Len(content) :
        IsImagePart(content[i]) => (i > 1 /\ content[i - 1] = SavedPathPart)

\* C11: with a save destination the result is the result without one, plus a
\* text part reporting the saved path right before each image part; the image
\* parts are returned also when the file cannot be written.
C11_SavePathOnlyAddsText ==
    (ResponseArrived /\ SaveRequested) =>
        LET alone == normalizeResponse(LastInbound.data, WithoutSavePath(request.arguments),
                                       diskWritable).outcome
        IN alone.kind = "return" =>
            /\ handlerOutcome.kind = "return"
            /\ handlerOutcome.isError = alone.isError
            /\ WithoutSavedPathParts(handlerOutcome.content) = alone.content
            /\ SelectSeq(handlerOutcome.content, IsImagePart)
                    = SelectSeq(alone.content, IsImagePart)
            /\ EachImageAfterSavedPath(handlerOutcome.content)

EmptyPrompt ==
    /\ request.name = "generate_image"
    /\ ~IsNullish(request.arguments)
    /\ Get(request.arguments, "prompt") = JStr("")

\* C12: a generate_image call with an empty prompt ends at once in an error
\* result saying that a prompt is required; at no point of the call is a
\* request sent or a file written.
C12_EmptyPromptNoRequest ==
    EmptyPrompt =>
        /\ pc = "done"
        /\ outcome.kind = "return"
        /\ outcome.isError
        /\ Len(outcome.content) = 1
        /\ outcome.content[1].type = "text"
        /\ Includes(ToLower(outcome.content[1].text.v), "prompt is required")
        /\ outbound = <<>>
        /\ inbound = <<>>
        /\ writes = <<>>

C12_Witness ==
    /\ EmptyPrompt
    /\ invoked = <<"handleGenerateImage">>
    /\ outcome = Returned(<<TextPartOf(JStr("Prompt is required for image generation."))>>, TRUE)

(***************************************************************************)
(* Claims about the dialects of the response.                              *)
(***************************************************************************)
\* choices[0].message of the response that arrived, undefined when the
\* response has none
ResponseMessage ==
    LET choices == GetOpt(LastInbound.data, "choices") IN
    IF choices.t = "arr" /\ choices.v # <<>> THEN GetOpt(choices.v[1], "message") ELSE Undef

ResponseContent == GetOpt(ResponseMessage, "content")

ResponseImages == GetOpt(ResponseMessage, "images")

\* the calls the dialect rules are stated for: generate_image, answered, with
\* no save destination
NormalizedAlone ==
    /\ ResponseArrived
    /\ request.name = "generate_image"
    /\ ~SaveRequested

\* where ";base64," starts in a data:<mime>;base64,<payload> URI, 0 in any
\* other string
Base64MarkAt(url) ==
    LET marks == {i \in 7..(Len(url) - 8) :
                    /\ SubSeq(url, 1, 5) = "data:"
                    /\ ~Includes(SubSeq(url, 6, i - 1), ";")
                    /\ SubSeq(url, i, i + 7) = ";base64,"}
    IN IF marks = {} THEN 0 ELSE CHOOSE i \in marks : TRUE

\* the part the rules give for an entry {type: "image_url", image_url: {url}}
IsPartOfUrl(part, url) ==
    LET at == Base64MarkAt(url) IN
    IF at > 0
    THEN part = ImagePartOf(JStr(SubSeq(url, 6, at - 1)), JStr(SubSeq(url, at + 8, Len(url))))
    ELSE part.type = "text" /\ part.text.t = "str" /\ Includes(part.text.v, url)

IsImageUrlEntry(entry) ==
    /\ entry.t = "obj"
    /\ Get(entry, "type") = JStr("image_url")
    /\ GetOpt(Get(entry, "image_url"), "url").t = "str"
    /\ GetOpt(Get(entry, "image_url"), "url").v # ""

UrlOfEntry(entry) == Get(Get(entry, "image_url"), "url").v

\* a non-empty images array of image_url entries
ImagesArrayOfUrls ==
    /\ ResponseImages.t = "arr"
    /\ ResponseImages.v # <<>>
    /\ \A i \in 1..Len(ResponseImages.v) : IsImageUrlEntry(ResponseImages.v[i])

LeadingTextParts ==
    IF ResponseContent.t = "str" /\ Trim(ResponseContent.v) # ""
    THEN <<TextPartOf(ResponseContent)>> ELSE <<>>

\* C13: a non-empty images array of image_url entries gives, after the
\* non-blank string content as first part, one part per entry in array order:
\* an image part for a data:<mime>;base64,<payload> URI, a text part with the
\* raw URL for any other url; no entry with a url is dropped.
C13_ImagesArrayEntryByEntry ==
    (NormalizedAlone /\ ImagesArrayOfUrls) =>
        /\ handlerOutcome.kind = "return"
        /\ ~handlerOutcome.isError
        /\ Len(handlerOutcome.content) = Len(LeadingTextParts) + Len(ResponseImages.v)
        /\ SubSeq(handlerOutcome.content, 1, Len(LeadingTextParts)) = LeadingTextParts
        /\ \A i \in 1..Len(ResponseImages.v) :
              IsPartOfUrl(handlerOutcome.content[Len(LeadingTextParts) + i],
                          UrlOfEntry(ResponseImages.v[i]))

\* C14: a base64 payload carried as a data URI in the images array and the
\* same payload carried as an inline_data part of array content normalize to
\* the same result: one image part with that mime type and that base64 data.
C14_DialectsAgree ==
    NormalizedAlone =>
        \A mime \in DialectMimes, payload \in DialectPayloads :
            LastInbound.data \in DialectPayloadsOf(mime, payload) =>
                /\ handlerOutcome = Returned(<<ImagePartOf(JStr(mime), JStr(payload))>>, FALSE)
                /\ \A other \in DialectPayloadsOf(mime, payload) :
                      normalizeResponse(other, request.arguments, diskWritable).outcome
                          = handlerOutcome

C14_Witness ==
    /\ NormalizedAlone
    /\ LastInbound.data = ImagesDialect("image/jpeg", "TWFu")
    /\ handlerOutcome = Returned(<<ImagePartOf(JStr("image/jpeg"), JStr("TWFu"))>>, FALSE)
    /\ normalizeResponse(InlineDataDialect("image/jpeg", "TWFu"), request.arguments,
                         diskWritable).outcome = handlerOutcome

GenerateImageAnswered == ResponseArrived /\ request.name = "generate_image"

\* a response body that is not null and has no choices, or an empty array
NoChoices ==
    /\ ~IsNullish(LastInbound.data)
    /\ LET choices == Get(LastInbound.data, "choices") IN
       \/ IsNullish(choices)
       \/ choices.t = "arr" /\ choices.v = <<>>

NoImagesArray == ~(ResponseImages.t = "arr" /\ ResponseImages.v # <<>>)

\* a message whose content is absent, null, a number or an object without
\* parts, and that has no images array
UnrecognizedContent ==
    /\ ResponseMessage.t = "obj"
    /\ NoImagesArray
    /\ \/ ResponseContent.t \in {"undefined", "null", "num"}
       \/ ResponseContent.t = "obj" /\ IsNullish(Get(ResponseContent, "parts"))

OneTextPart(o) ==
    /\ o.kind = "return"
    /\ Len(o.content) = 1
    /\ o.content[1].type = "text"
    /\ o.content[1].text.t = "str"

\* C15 as stated: a response of no recognized shape, one with no choices
\* included, gives exactly one diagnostic text part and isError is not set.
C15_UnrecognizedShapeNotError ==
    (GenerateImageAnswered /\ (NoChoices \/ UnrecognizedContent)) =>
        /\ OneTextPart(handlerOutcome)
        /\ ~handlerOutcome.isError

\* C15 as amended: a message whose content is absent, null, a number or an
\* object without parts (and no images array) gives exactly one diagnostic
\* text part and isError is not set; a response with no choices gives exactly
\* one text part quoting the raw response, with isError set.
C15_FallthroughDiagnostic ==
    GenerateImageAnswered =>
        /\ UnrecognizedContent =>
            /\ OneTextPart(handlerOutcome)
            /\ ~handlerOutcome.isError
            /\ StartsWith(handlerOutcome.content[1].text.v, "DEBUG: Content type=")
        /\ NoChoices =>
            /\ OneTextPart(handlerOutcome)
            /\ handlerOutcome.isError
            /\ StartsWith(handlerOutcome.content[1].text.v, "No response from model.")

C15_Witness ==
    /\ GenerateImageAnswered
    /\ UnrecognizedContent
    /\ ResponseContent = Obj1("role", JStr("model"))
    /\ OneTextPart(handlerOutcome)
    /\ ~handlerOutcome.isError
    /\ Includes(handlerOutcome.content[1].text.v, "Content type=object, isArray=false, keys=role.")

StringContentAlone ==
    /\ NormalizedAlone
    /\ ResponseMessage.t = "obj"
    /\ NoImagesArray
    /\ ResponseContent.t = "str"

\* the one part the rules for a string give: the embedded image, else the
\* image URL, else the whole string
PartOfString(s) ==
    LET embedded == matchEmbeddedImage(s)
        url == matchImageUrl(s)
    IN IF embedded.ok
       THEN ImagePartOf(JStr("image/" \o embedded.mime), JStr(embedded.payload))
       ELSE IF url.ok THEN TextPartOf(JStr("Generated image URL: " \o url.whole))
       ELSE TextPartOf(JStr(s))

IsRecognizedPart(part) ==
    /\ part.t = "obj"
    /\ \/ /\ Get(part, "type") = JStr("image_url")
          /\ GetOpt(Get(part, "image_url"), "url").t = "str"
          /\ GetOpt(Get(part, "image_url"), "url").v # ""
       \/ /\ Get(part, "type") = JStr("inline_data")
          /\ Get(part, "data").t = "str"
          /\ Get(part, "mime_type").t = "str"
       \/ /\ Get(part, "inline_data").t = "obj"
          /\ Get(Get(part, "inline_data"), "data").t = "str"
          /\ Get(Get(part, "inline_data"), "mime_type").t = "str"
       \/ /\ Get(part, "type") = JStr("image")
          /\ Get(part, "data").t = "str"
       \/ /\ Get(part, "type") = JStr("text")
          /\ Get(part, "text").t = "str"
       \/ /\ Get(part, "url").t = "str"
          /\ StartsWith(Get(part, "url").v, "data:")

RecognizedParts(parts) == SelectSeq(parts, IsRecognizedPart)

ArrayContentAlone ==
    /\ NormalizedAlone
    /\ ResponseMessage.t = "obj"
    /\ NoImagesArray
    /\ ResponseContent.t = "arr"
    /\ RecognizedParts(ResponseContent.v) # <<>>

\* C17: in array content a part of no recognized shape is skipped: the result
\* is the one the recognized parts give by themselves, in array order, and
\* the other entries neither raise nor remove or reorder anything.
C17_UnrecognizedPartsSkipped ==
    ArrayContentAlone =>
        LET alone == normalizeResponse(
                        ResponseOf(MessageOf(JArr(RecognizedParts(ResponseContent.v)), Undef)),
                        request.arguments, diskWritable).outcome
        IN /\ alone.kind = "return"
           /\ handlerOutcome = alone

(***************************************************************************)
(* Several tool calls in flight at once.  Each call of a handler has its   *)
(* own locals (args, model); the handlers object, the provider and the     *)
(* disk are shared.  A call is suspended at its awaits only: the file      *)
(* write is writeFileSync and is part of the step that ends the call.      *)
(***************************************************************************)
MaxCalls == 2

IdleCall ==
    [pc |-> "idle", request |-> [name |-> "", arguments |-> Undef], model |-> "",
     outbound |-> <<>>, inbound |-> <<>>, outcome |-> NoOutcome]

\* no call in flight: the specifications of one call or one function
ConcIdle ==
    /\ calls = <<>>
    /\ started = <<>>
    /\ files = <<>>

\* args as a field of the shared handlers object, set by each call
closureArgumentsShared(cs, order, i) == cs[order[Len(order)]].request.arguments

\* "const args = request.params.arguments": a local of the call
closureArguments(cs, order, i) == cs[i].request.arguments

ConcRequests ==
    {[name |-> "mcp_openrouter_chat_completion",
      arguments |-> Obj1("messages", JArr(<<UserMessage(1, "hi")>>))],
     [name |-> "mcp_openrouter_chat_completion",
      arguments |-> Obj2("messages", JArr(<<UserMessage(1, "hi")>>), "model", JStr("user/model"))],
     [name |-> "generate_image", arguments |-> Obj1("prompt", JStr("a cat"))],
     [name |-> "generate_image",
      arguments |-> Obj2("prompt", JStr("a cat"), "save_path", JStr("/out/a.png"))],
     [name |-> "no_such_tool", arguments |-> Undef]}

ConcCompletionReplies ==
    {[kind |-> "ok", data |-> CompletionOf(JStr("hello"))],
     [kind |-> "error", error |-> [class |-> "Error", message |-> "401 No auth credentials found"]]}

ConcImageReplies ==
    {[kind |-> "ok", data |-> ResponseOf(MessageOf(JStr("see image at data:image/png;base64,QQ=="), Undef))],
     [kind |-> "ok", data |-> ResponseOf(MessageOf(JStr("a drawing"), Undef))],
     [kind |-> "error", error |-> AxiosError(Undef, "timeout of 120000ms exceeded")]}

ConcEnvInit ==
    /\ config \in {c \in ServerConfigs : c.optionsDefaultModel = "" /\ c.envDefaultModel = ""}
    /\ defaultModel = constructorDefaultModel(config)
    /\ catalog = <<CatalogModel("z/fre", JNum(8000)), CatalogModel("x:free", JNum(32000))>>
    /\ diskWritable \in BOOLEAN

ConcInit ==
    /\ calls = [i \in 1..MaxCalls |-> IdleCall]
    /\ started = <<>>
    /\ files = <<>>

\* the router accepts the next call and runs its handler up to the first await
ConcCallTool ==
    /\ \E i \in 1..MaxCalls : \E req \in ConcRequests :
        LET handler == routeTool(req.name)
            step == CASE handler = "handleChatCompletion" ->
                            chatCompletionStart(req.arguments, defaultModel)
                      [] handler = "handleGenerateImage" -> imageStart(req.arguments)
                      [] OTHER -> Ended(Thrown("MethodNotFound"))
        IN /\ i = Len(started) + 1
           /\ calls[i].pc = "idle"
           /\ calls' = [calls EXCEPT ![i] =
                           [pc |-> step.pc, request |-> req, model |-> step.model,
                            outbound |-> step.sent, inbound |-> <<>>,
                            outcome |-> routerReturn(step.outcome)]]
           /\ started' = Append(started, i)
    /\ UNCHANGED <<files, truncVars, selVars, envVars, callVars>>

\* openai.models.list() of one call settles
ConcModelsReply ==
    /\ \E i \in 1..MaxCalls : \E kind \in {"raise", "list"} :
        LET response == IF kind = "list" THEN [kind |-> "list", data |-> catalog]
                        ELSE [kind |-> kind]
            step == chatCompletionSelected(closureArguments(calls, started, i), response)
        IN /\ calls[i].pc = "awaitModels"
           /\ calls' = [calls EXCEPT ![i].pc = step.pc,
                                     ![i].model = step.model,
                                     ![i].outbound = @ \o step.sent,
                                     ![i].inbound = Append(@, response)]
    /\ UNCHANGED <<started, files, truncVars, selVars, envVars, callVars>>

\* openai.chat.completions.create() of one call settles
ConcCompletionReply ==
    /\ \E i \in 1..MaxCalls : \E reply \in ConcCompletionReplies :
        /\ calls[i].pc = "awaitCompletion"
        /\ calls' = [calls EXCEPT ![i].pc = "done",
                                  ![i].inbound = Append(@, reply),
                                  ![i].outcome = routerReturn(chatCompletionEnd(reply))]
    /\ UNCHANGED <<started, files, truncVars, selVars, envVars, callVars>>

\* axios.post() of one call settles
ConcImageReply ==
    /\ \E i \in 1..MaxCalls : \E reply \in ConcImageReplies :
        LET end == imageEnd(reply, closureArguments(calls, started, i), diskWritable) IN
        /\ calls[i].pc = "awaitImage"
        /\ calls' = [calls EXCEPT ![i].pc = "done",
                                  ![i].inbound = Append(@, reply),
                                  ![i].outcome = routerReturn(end.outcome)]
        /\ files' = files \o end.writes
    /\ UNCHANGED <<started, truncVars, selVars, envVars, callVars>>

(***************************************************************************)
(* Claims about calls in flight at once.                                   *)
(***************************************************************************)
\* what the call gives when it runs alone: the same arguments, the same
\* answers of the provider
ResultAlone(req, replies) ==
    LET handler == routeTool(req.name) IN
    CASE handler = "handleChatCompletion" ->
            LET first == chatCompletionStart(req.arguments, defaultModel) IN
            IF first.pc = "done" THEN first.outcome
            ELSE chatCompletionEnd(replies[Len(replies)])
      [] handler = "handleGenerateImage" ->
            LET first == imageStart(req.arguments) IN
            IF first.pc = "done" THEN first.outcome
            ELSE imageEnd(replies[1], req.arguments, diskWritable).outcome
      [] OTHER -> Thrown("MethodNotFound")

SelIdle ==
    /\ modelsResponse = [kind |-> "none"]
    /\ selCalled = FALSE
    /\ selected = ""

\* the truncator applied to every bounded input
TruncSpecInit == TruncInit /\ SelIdle /\ EnvIdle /\ CallIdle /\ ConcIdle

TruncNext == TruncateCall

SpecTrunc == TruncSpecInit /\ [][TruncNext]_vars

\* the selector applied to every bounded catalog
SelSpecInit == SelInit /\ TruncIdle /\ EnvIdle /\ CallIdle /\ ConcIdle

SelNext == SelectCall

SpecSel == SelSpecInit /\ [][SelNext]_vars

\* the normalizer applied to every bounded response
NormSpecInit == NormInit /\ TruncIdle /\ SelIdle /\ ConcIdle

NormNext == ImageReply(NormPayloads)

SpecNorm == NormSpecInit /\ [][NormNext]_vars

\* the server with several tool calls in flight
ConcSpecInit == ConcEnvInit /\ ConcInit /\ CallIdle /\ TruncIdle /\ SelIdle

ConcNext ==
    \/ ConcCallTool
    \/ ConcModelsReply
    \/ ConcCompletionReply
    \/ ConcImageReply

SpecConc == ConcSpecInit /\ [][ConcNext]_vars

\* the server: one tool call, from the router to its result
Init == EnvInit /\ CallIdle /\ TruncIdle /\ SelIdle /\ ConcIdle

Next ==
    \/ CallTool
    \/ ModelsReply
    \/ CompletionReply
    \/ ImageReply(ServerPayloads)
    \/ OpaqueHandlerReturns

Spec == Init /\ [][Next]_vars

====
